---- MODULE Spec2Model ----
(***************************************************************************)
(* The state-distribution hub of src/main.py: the junction state table,   *)
(* the two client registries, the producer and dashboard websocket        *)
(* handlers, the override request handler and the broadcast helper.       *)
(*                                                                         *)
(* Execution model: one asyncio task per connection or request.  The code *)
(* between two awaits runs without interruption.  `await ws.send_text(m)` *)
(* hands m to the recipient's transport at the call (or raises), and the  *)
(* calling task may then stay suspended for any length of time before it  *)
(* continues; `await ws.receive_text()` suspends until the client sends   *)
(* or disconnects.                                                         *)
(***************************************************************************)
EXTENDS Integers, Sequences, FiniteSets, TLC

\* ------------------------------------------------------------------ bounds
MaxBroadcasts == 2      \* broadcast() calls in one behaviour

\* ------------------------------------------------------- program constants
DefaultDuration == 20   \* payload.get("duration", 20)

\* ---------------------------------------------------------------- universe
Producers == {"p1", "p2"}            \* /ws/publish connections
Overriders == {"r1"}                 \* POST /api/junctions/{jid}/override requests
Observers == {"o1", "o2", "o3"}      \* /ws/dashboard connections
Callers == Producers \cup Overriders \* the tasks that call broadcast()
JIds == {"A", "B"}

\* The position of a websocket object in the hash table of the set
\* dashboard_clients: a set is iterated in slot order.
Slot == [o \in Observers |-> CASE o = "o1" -> 1 [] o = "o2" -> 2 [] o = "o3" -> 3]

\* Python's None, as a field value and as the result of dict.get.
None == "None"

\* The texts a producer may send: JSON objects, or text that is not JSON.
UpdateMsgs ==
    { [type |-> "junction_update", junction_id |-> "A", current_green |-> "north"],
      [type |-> "junction_update", junction_id |-> "A", current_green |-> "south"],
      [type |-> "junction_update", junction_id |-> "B", current_green |-> "north"] }
NoIdMsg == [type |-> "junction_update", current_green |-> "north"]
OtherKindMsg == [type |-> "heartbeat"]
ProducerObjects == UpdateMsgs \cup {NoIdMsg, OtherKindMsg}

\* The bodies an override request may carry.
OverridePayloads ==
    { [lane |-> "east", duration |-> 15, operator |-> "op1", reason |-> "congestion"],
      [lane |-> "west"],
      [lane |-> "east", duration |-> -5],
      [duration |-> 15] }

\* ------------------------------------------------------------------- state
VARIABLES
    publish_clients,    \* set of producer websockets
    dashboard_clients,  \* set of dashboard websockets
    junctions,          \* dict: junction id -> latest state record
    pc,                 \* where each task stands
    exc,                \* the exception that ended a task, or None
    open,               \* observer -> its transport is open
    bc,                 \* caller -> the frame of its running broadcast() call
    resp,               \* overrider -> the response of its request
    issued,             \* history: the broadcast() calls, in call order
    sent,               \* history: observer -> the send_text calls made on it
    joinedAt,           \* history: observer -> Len(issued) when it registered
    ignoredAt           \* history: producer -> Len(issued) + 1 when it first
                        \* ignored a message, 0 before

vars == <<publish_clients, dashboard_clients, junctions, pc, exc, open, bc,
          resp, issued, sent, joinedAt, ignoredAt>>

\* ------------------------------------------------------------ dict helpers
\* d.get(k), for a dict d
Get(d, k) == IF k \in DOMAIN d THEN d[k] ELSE None

\* d.get(k, default)
GetOr(d, k, default) == IF k \in DOMAIN d THEN d[k] ELSE default

\* d[k] = v, for a dict d
DictSet(d, k, v) == [x \in DOMAIN d \cup {k} |-> IF x = k THEN v ELSE d[x]]

\* json.dumps(obj): the text of a JSON value
Dumps(obj) == [json |-> obj]

\* json.loads(text), for a text that is JSON
Loads(text) == text.json

\* The texts that arrive on a producer connection.
ProducerTexts == {Dumps(m) : m \in ProducerObjects}

\* list(junctions.values()); the keys are listed in the order of KeyOrder
KeyOrder == <<"A", "B">>
Values(d) ==
    LET ks == SelectSeq(KeyOrder, LAMBDA k : k \in DOMAIN d)
    IN [i \in 1 .. Len(ks) |-> d[ks[i]]]

\* datetime.datetime.now(datetime.timezone.utc).isoformat()
NowIso == "ts"

\* ------------------------------------------------------------ state table
\* A variant of Upsert that merges msg into the stored record, field by field.
UpsertMerge(table, jid, msg) ==
    IF jid \in DOMAIN table
    THEN DictSet(table, jid,
                 [x \in DOMAIN table[jid] \cup DOMAIN msg |->
                     IF x \in DOMAIN msg THEN msg[x] ELSE table[jid][x]])
    ELSE DictSet(table, jid, msg)

\* junctions[jid] = msg
Upsert(table, jid, msg) == DictSet(table, jid, msg)

\* A variant of ApplyOverride that builds the record from the placeholder
\* alone, dropping what was stored for jid.
ApplyOverrideFresh(table, jid, payload) ==
    DictSet(table, jid,
            [junction_id |-> jid,
             current_green |-> Get(payload, "lane"),
             phase_remaining |-> GetOr(payload, "duration", DefaultDuration),
             override |-> [operator |-> GetOr(payload, "operator", "manual"),
                           reason |-> GetOr(payload, "reason", "Manual override"),
                           time |-> NowIso]])

\* override_junction, lines 97-108: the record of jid after the override
ApplyOverride(table, jid, payload) ==
    LET lane == Get(payload, "lane")
        duration == GetOr(payload, "duration", DefaultDuration)
        operator == GetOr(payload, "operator", "manual")
        reason == GetOr(payload, "reason", "Manual override")
        base == IF jid \in DOMAIN table THEN table[jid] ELSE [junction_id |-> jid]
        r1 == DictSet(base, "current_green", lane)
        r2 == DictSet(r1, "phase_remaining", duration)
        r3 == DictSet(r2, "override",
                      [operator |-> operator, reason |-> reason, time |-> NowIso])
    IN DictSet(table, jid, r3)

\* override_junction, lines 111-116: the override event
OverrideEvent(jid, payload) ==
    [type |-> "override", junction_id |-> jid, payload |-> payload, ts |-> NowIso]

\* ws_dashboard, lines 70-73: the snapshot message
Snapshot(table) == [type |-> "snapshot", junctions |-> Values(table)]

\* --------------------------------------------------------------- broadcast
\* The frame of a broadcast() call: the call's number in `issued`, the set
\* iterator (the slot it has reached and the size the set had when the
\* iterator was made) and dead_clients.
NoFrame == [seq |-> 0, pos |-> 0, used |-> 0, dead |-> <<>>]
NewFrame(n) == [seq |-> n, pos |-> 0, used |-> Cardinality(dashboard_clients),
                dead |-> <<>>]

\* The set iterator's next(): the registered client in the lowest slot after
\* the one reached.
Remaining(frame) == {o \in dashboard_clients : Slot[o] > frame.pos}
NextClient(frame) ==
    CHOOSE o \in Remaining(frame) : \A q \in Remaining(frame) : Slot[o] <= Slot[q]

\* The set iterator raises RuntimeError("Set changed size during iteration").
SizeChanged(frame) == Cardinality(dashboard_clients) # frame.used

\* client.send_text(message) raises
SendFails(o) == ~open[o]

\* A variant of RemoveDead that empties the registry when a client is dead.
RemoveDeadClears(clients, dead) ==
    [clients |-> IF dead = <<>> THEN clients ELSE {}, raised |-> FALSE]

\* The second loop of broadcast(), lines 35-36: dashboard_clients.remove(client)
\* for each dead client in turn; remove raises KeyError on an absent client.
RECURSIVE RemoveDead(_, _)
RemoveDead(clients, dead) ==
    IF dead = <<>> THEN [clients |-> clients, raised |-> FALSE]
    ELSE IF Head(dead) \notin clients THEN [clients |-> clients, raised |-> TRUE]
    ELSE RemoveDead(clients \ {Head(dead)}, Tail(dead))

\* An entry of the history of broadcast() calls; `over` is the number of calls
\* made so far when this one ended.
Ended(iss, n, how) == [iss EXCEPT ![n].status = how, ![n].over = Len(iss)]

Call(t, message) ==
    [by |-> t, msg |-> message, status |-> "running", over |-> 0]

\* What the caller does when broadcast() returns: a producer goes back to
\* receive_text (line 48), an override request returns its response
\* (lines 121-125), which reads junctions[jid] at that moment.
Returns(t, frame, table, iss) ==
    IF t \in Producers
    THEN /\ pc' = [pc EXCEPT ![t] = "recv"]
         /\ UNCHANGED <<exc, resp>>
    ELSE LET event == Loads(iss[frame.seq].msg)
         IN /\ pc' = [pc EXCEPT ![t] = "done"]
            /\ resp' = [resp EXCEPT ![t] =
                          [status |-> "ok", event |-> event,
                           applied_state |-> table[event.junction_id]]]
            /\ UNCHANGED exc

\* An exception leaves broadcast(): neither ws_publish (which handles only
\* WebSocketDisconnect) nor override_junction handles it, so the task ends.
Raises(t, e) ==
    /\ pc' = [pc EXCEPT ![t] = "failed"]
    /\ exc' = [exc EXCEPT ![t] = e]
    /\ resp' = IF t \in Overriders THEN [resp EXCEPT ![t] = [status |-> "error"]]
               ELSE resp

\* broadcast() running from the head of its first loop up to its next
\* suspension in send_text, or to its end.  `frame` is the call's frame,
\* `table` the state table and `iss` the call history as the caller leaves
\* them in this step.
Sweep(t, frame, table, iss) ==
    LET n == frame.seq IN
    IF SizeChanged(frame)
    THEN /\ Raises(t, "RuntimeError: Set changed size during iteration")
         /\ issued' = Ended(iss, n, "raised")
         /\ bc' = [bc EXCEPT ![t] = NoFrame]
         /\ UNCHANGED <<dashboard_clients, sent>>
    ELSE IF Remaining(frame) # {}
    THEN LET o == NextClient(frame) IN
         /\ sent' = [sent EXCEPT ![o] =
                       Append(@, [seq |-> n, msg |-> iss[n].msg, ok |-> ~SendFails(o)])]
         /\ bc' = [bc EXCEPT ![t] =
                     [frame EXCEPT !.pos = Slot[o],
                                   !.dead = IF SendFails(o) THEN Append(@, o) ELSE @]]
         /\ pc' = [pc EXCEPT ![t] = "bcast"]
         /\ issued' = iss
         /\ UNCHANGED <<dashboard_clients, exc, resp>>
    ELSE LET r == RemoveDead(dashboard_clients, frame.dead) IN
         /\ dashboard_clients' = r.clients
         /\ bc' = [bc EXCEPT ![t] = NoFrame]
         /\ UNCHANGED sent
         /\ IF r.raised
            THEN /\ Raises(t, "KeyError: dashboard_clients.remove")
                 /\ issued' = Ended(iss, n, "raised")
            ELSE /\ Returns(t, frame, table, iss)
                 /\ issued' = Ended(iss, n, "returned")

\* A caller starts broadcast(message).
Broadcast(t, message, table) ==
    LET iss == Append(issued, Call(t, message))
    IN Sweep(t, NewFrame(Len(iss)), table, iss)

\* A task suspended in send_text inside broadcast() continues.
BroadcastResume(t) ==
    /\ pc[t] = "bcast"
    /\ Sweep(t, bc[t], junctions, issued)
    /\ UNCHANGED <<publish_clients, junctions, open, joinedAt, ignoredAt>>

\* ---------------------------------------------------------------- producer
\* ws_publish, lines 44-45
PublishConnect(p) ==
    /\ pc[p] = "idle"
    /\ pc' = [pc EXCEPT ![p] = "recv"]
    /\ publish_clients' = publish_clients \cup {p}
    /\ UNCHANGED <<dashboard_clients, junctions, exc, open, bc, resp, issued,
                   sent, joinedAt, ignoredAt>>

\* A variant of IsUpdate that takes every message for a junction_update.
IsUpdateAlways(msg) == TRUE

\* ws_publish, line 51: msg.get("type") == "junction_update"
IsUpdate(msg) == Get(msg, "type") = "junction_update"

\* ws_publish, lines 48-55: one text arrives and is processed up to the
\* first suspension.
PublishReceive(p, data) ==
    /\ pc[p] = "recv"
    /\ UNCHANGED <<publish_clients, open, joinedAt>>
    /\ LET msg == Loads(data) IN
            IF ~IsUpdate(msg)
            THEN /\ ignoredAt' = [ignoredAt EXCEPT ![p] =
                                    IF @ = 0 THEN Len(issued) + 1 ELSE @]
                 /\ UNCHANGED <<dashboard_clients, junctions, pc, exc, bc, resp,
                                issued, sent>>
            ELSE IF "junction_id" \notin DOMAIN msg
            THEN /\ pc' = [pc EXCEPT ![p] = "failed"]
                 /\ exc' = [exc EXCEPT ![p] = "KeyError: junction_id"]
                 /\ UNCHANGED <<dashboard_clients, junctions, bc, resp, issued,
                                sent, ignoredAt>>
            ELSE /\ Len(issued) < MaxBroadcasts
                 /\ junctions' = Upsert(junctions, msg["junction_id"], msg)
                 /\ Broadcast(p, Dumps(msg), junctions')
                 /\ UNCHANGED ignoredAt

\* A variant of PublishDisconnect that empties the tracking set.
PublishDisconnectClears(p) ==
    /\ pc[p] = "recv"
    /\ pc' = [pc EXCEPT ![p] = "done"]
    /\ publish_clients' = {}
    /\ UNCHANGED <<dashboard_clients, junctions, exc, open, bc, resp, issued,
                   sent, joinedAt, ignoredAt>>

\* ws_publish, lines 57-58: receive_text raises WebSocketDisconnect
PublishDisconnect(p) ==
    /\ pc[p] = "recv"
    /\ pc' = [pc EXCEPT ![p] = "done"]
    /\ publish_clients' = publish_clients \ {p}
    /\ UNCHANGED <<dashboard_clients, junctions, exc, open, bc, resp, issued,
                   sent, joinedAt, ignoredAt>>

\* --------------------------------------------------------------- dashboard
\* The client of an observer goes away: its transport closes.
ClientClose(o) ==
    /\ pc[o] = "hold"
    /\ open[o]
    /\ open' = [open EXCEPT ![o] = FALSE]
    /\ UNCHANGED <<publish_clients, dashboard_clients, junctions, pc, exc, bc,
                   resp, issued, sent, joinedAt, ignoredAt>>

\* A variant of ConnectMessages that sends nothing on connect.
ConnectNoSnapshot(table) == <<>>

\* The messages ws_dashboard sends on connect, lines 70-74.
ConnectMessages(table) == <<Dumps(Snapshot(table))>>

\* ws_dashboard, lines 66-74: accept, register, send the snapshot and
\* suspend in receive_text.
DashboardConnect(o) ==
    /\ pc[o] = "idle"
    /\ open' = [open EXCEPT ![o] = TRUE]
    /\ dashboard_clients' = dashboard_clients \cup {o}
    /\ joinedAt' = [joinedAt EXCEPT ![o] = Len(issued)]
    /\ sent' = [sent EXCEPT ![o] =
                  @ \o [i \in 1 .. Len(ConnectMessages(junctions)) |->
                          [seq |-> 0, msg |-> ConnectMessages(junctions)[i],
                           ok |-> TRUE]]]
    /\ pc' = [pc EXCEPT ![o] = "hold"]
    /\ UNCHANGED <<publish_clients, junctions, exc, bc, resp, issued, ignoredAt>>

\* ws_dashboard, lines 76-79: receive_text raises WebSocketDisconnect and the
\* handler removes the session; remove raises KeyError on an absent session.
DashboardDisconnect(o) ==
    /\ pc[o] = "hold"
    /\ ~open[o]
    /\ IF o \in dashboard_clients
       THEN /\ dashboard_clients' = dashboard_clients \ {o}
            /\ pc' = [pc EXCEPT ![o] = "done"]
            /\ UNCHANGED exc
       ELSE /\ pc' = [pc EXCEPT ![o] = "failed"]
            /\ exc' = [exc EXCEPT ![o] = "KeyError: dashboard_clients.remove"]
            /\ UNCHANGED dashboard_clients
    /\ UNCHANGED <<publish_clients, junctions, open, bc, resp, issued, sent,
                   joinedAt, ignoredAt>>

\* ---------------------------------------------------------------- override
\* override_junction, lines 92-119, up to the first suspension in broadcast
OverrideRequest(r, jid, payload) ==
    /\ pc[r] = "idle"
    /\ Len(issued) < MaxBroadcasts
    /\ junctions' = ApplyOverride(junctions, jid, payload)
    /\ Broadcast(r, Dumps(OverrideEvent(jid, payload)), junctions')
    /\ UNCHANGED <<publish_clients, open, joinedAt, ignoredAt>>

\* ------------------------------------------------------------ specification
Init ==
    /\ publish_clients = {}
    /\ dashboard_clients = {}
    /\ junctions = <<>>
    /\ pc = [t \in Callers \cup Observers |-> "idle"]
    /\ exc = [t \in Callers \cup Observers |-> None]
    /\ open = [o \in Observers |-> FALSE]
    /\ bc = [t \in Callers |-> NoFrame]
    /\ resp = [r \in Overriders |-> [status |-> "none"]]
    /\ issued = <<>>
    /\ sent = [o \in Observers |-> <<>>]
    /\ joinedAt = [o \in Observers |-> 0]
    /\ ignoredAt = [p \in Producers |-> 0]

\* The fan-out universe: one producer, one override request and three
\* observers, with one update text and one override body.
FanoutTexts == {Dumps([type |-> "junction_update", junction_id |-> "A",
                       current_green |-> "north"])}
FanoutPayloads ==
    {[lane |-> "east", duration |-> 15, operator |-> "op1", reason |-> "congestion"]}

Next ==
    \/ \E p \in {"p1"} : PublishConnect(p)
    \/ \E p \in {"p1"}, data \in FanoutTexts : PublishReceive(p, data)
    \/ \E p \in {"p1"} : PublishDisconnect(p)
    \/ \E o \in Observers : DashboardConnect(o)
    \/ \E o \in Observers : ClientClose(o)
    \/ \E o \in Observers : DashboardDisconnect(o)
    \/ \E r \in Overriders, payload \in FanoutPayloads : OverrideRequest(r, "A", payload)
    \/ \E t \in Callers : BroadcastResume(t)

Spec == Init /\ [][Next]_vars

\* The state-table universe: two producers, one override request and one
\* observer, with every junction_update text and every override body.
TableTexts == {Dumps(m) : m \in UpdateMsgs \cup {NoIdMsg}}

NextTable ==
    \/ \E p \in Producers : PublishConnect(p)
    \/ \E p \in Producers, data \in TableTexts : PublishReceive(p, data)
    \/ \E p \in Producers : PublishDisconnect(p)
    \/ \E o \in {"o1"} : DashboardConnect(o)
    \/ \E o \in {"o1"} : ClientClose(o)
    \/ \E o \in {"o1"} : DashboardDisconnect(o)
    \/ \E r \in Overriders, jid \in JIds, payload \in OverridePayloads :
          OverrideRequest(r, jid, payload)
    \/ \E t \in Callers : BroadcastResume(t)

SpecTable == Init /\ [][NextTable]_vars

\* The producers-only universe: two producers and two observers, with every
\* junction_update text and no override request.
UpdateTexts == {Dumps(m) : m \in UpdateMsgs}

NextUpdates ==
    \/ \E p \in Producers : PublishConnect(p)
    \/ \E p \in Producers, data \in UpdateTexts : PublishReceive(p, data)
    \/ \E p \in Producers : PublishDisconnect(p)
    \/ \E o \in {"o1", "o2"} : DashboardConnect(o)
    \/ \E o \in {"o1", "o2"} : ClientClose(o)
    \/ \E o \in {"o1", "o2"} : DashboardDisconnect(o)
    \/ \E p \in Producers : BroadcastResume(p)

SpecUpdates == Init /\ [][NextUpdates]_vars

\* The message-kind universe: two producers and one observer, with one
\* junction_update text and one text of another kind.
KindTexts == FanoutTexts \cup {Dumps(OtherKindMsg)}

NextKinds ==
    \/ \E p \in Producers : PublishConnect(p)
    \/ \E p \in Producers, data \in KindTexts : PublishReceive(p, data)
    \/ \E p \in Producers : PublishDisconnect(p)
    \/ \E o \in {"o1"} : DashboardConnect(o)
    \/ \E o \in {"o1"} : ClientClose(o)
    \/ \E o \in {"o1"} : DashboardDisconnect(o)
    \/ \E p \in Producers : BroadcastResume(p)

SpecKinds == Init /\ [][NextKinds]_vars

\* The slow-consumer universe: one producer, one override request and two
\* observers, one of which stays connected and never lets a send_text on it
\* complete: the task that awaits it (broadcast, line 32) is never resumed.  A task that awaits
\* a send on another observer is resumed by the event loop.
SlowObserver == "o1"

ResumeUnlessSlow(t) ==
    /\ bc[t].pos # Slot[SlowObserver]
    /\ BroadcastResume(t)

NextSlow ==
    \/ \E p \in {"p1"} : PublishConnect(p)
    \/ \E p \in {"p1"}, data \in FanoutTexts : PublishReceive(p, data)
    \/ \E p \in {"p1"} : PublishDisconnect(p)
    \/ \E o \in {"o1", "o2"} : DashboardConnect(o)
    \/ \E o \in {"o2"} : ClientClose(o)
    \/ \E o \in {"o2"} : DashboardDisconnect(o)
    \/ \E r \in Overriders, payload \in FanoutPayloads : OverrideRequest(r, "A", payload)
    \/ \E t \in Callers : ResumeUnlessSlow(t)

SpecSlow ==
    /\ Init
    /\ [][NextSlow]_vars
    /\ \A t \in Callers : WF_vars(ResumeUnlessSlow(t))

\* ------------------------------------------------------------ history views
\* The send_text calls on o that succeeded: what o received, in order.
Received(o) == SelectSeq(sent[o], LAMBDA e : e.ok)

IsSnapshotEntry(e) == Loads(e.msg).type = "snapshot"

\* The numbers of the broadcast() calls whose send_text on o was called.
Attempted(o) == {sent[o][i].seq : i \in 1 .. Len(sent[o])} \ {0}

\* How many times call n reached o.
Copies(o, n) == Cardinality({i \in 1 .. Len(sent[o]) : sent[o][i].seq = n /\ sent[o][i].ok})

\* o is registered, its handler is in the hold loop and its transport is open.
Healthy(o) == pc[o] = "hold" /\ open[o] /\ o \in dashboard_clients

CallEnded(n) == issued[n].status # "running"

CallMsg(n) == Loads(issued[n].msg)

\* The junction id a broadcast() call is about.
CallJid(n) == CallMsg(n).junction_id

\* The calls about jid among the first k.
CallsAbout(jid, k) == {n \in 1 .. k : CallJid(n) = jid}

Last(S) == CHOOSE n \in S : \A m \in S : m <= n

\* ------------------------------------------------------------------ claims

\* o registered before call n was made.  (A session registers once, so an
\* observer that is registered now and joined before call n was registered
\* throughout the call.)
JoinedBefore(o, n) == pc[o] # "idle" /\ joinedAt[o] < n

\* The observers on which a send_text of call n raised.
FailedIn(n) ==
    {o \in Observers : \E i \in 1 .. Len(sent[o]) : sent[o][i].seq = n /\ ~sent[o][i].ok}

\* C1: a broadcast made with N observers registered, during which the send to
\* some of them failed and no observer joined, has, once it has ended,
\* delivered its message once to every member that is still healthy, has left
\* no failing member in the registry, and no broadcast called after it ended
\* attempts delivery to a failing member.
C1_FailingObserverIsolated ==
    \A n \in 1 .. Len(issued) :
        (/\ CallEnded(n)
         /\ FailedIn(n) # {}
         /\ \A o \in Observers : pc[o] = "idle" \/ JoinedBefore(o, n)) =>
            /\ \A o \in Observers : Healthy(o) => Copies(o, n) = 1
            /\ \A f \in FailedIn(n) :
                  /\ f \notin dashboard_clients
                  /\ \A m \in Attempted(f) : m <= issued[n].over

\* C2: the first message sent to an observer is a snapshot, it is the only
\* snapshot sent to it, and no broadcast message is sent to it before.
C2_SnapshotFirstAndOnce ==
    \A o \in Observers :
        IF pc[o] = "idle" THEN sent[o] = <<>>
        ELSE /\ Len(sent[o]) >= 1
             /\ IsSnapshotEntry(sent[o][1])
             /\ \A i \in 2 .. Len(sent[o]) : ~IsSnapshotEntry(sent[o][i])

\* C2 witness: an observer joined while a broadcast was in its sweep, and got
\* that broadcast's message after its snapshot.
C2_Witness ==
    \E o \in Observers :
        /\ Len(sent[o]) >= 2
        /\ sent[o][2].seq >= 1
        /\ sent[o][2].seq <= joinedAt[o]
        /\ sent[o][2].ok

\* The state table after the first k broadcast() calls: every write of the
\* table is made in the step that makes a call.
RECURSIVE TableAfter(_)
TableAfter(k) ==
    IF k = 0 THEN <<>>
    ELSE IF CallMsg(k).type = "junction_update"
         THEN Upsert(TableAfter(k - 1), CallJid(k), CallMsg(k))
         ELSE ApplyOverride(TableAfter(k - 1), CallJid(k), CallMsg(k).payload)

SnapshotOf(o) == Loads(sent[o][1].msg)

Range(f) == {f[i] : i \in DOMAIN f}

\* C3: an observer's snapshot lists the state table as it was at its join, and
\* a healthy observer has received exactly once every broadcast called after
\* its join that has ended.
C3_SnapshotThenEveryBroadcastOnce ==
    \A o \in Observers : pc[o] # "idle" =>
        /\ SnapshotOf(o) = Snapshot(TableAfter(joinedAt[o]))
        /\ \A n \in (joinedAt[o] + 1) .. Len(issued) :
              /\ Copies(o, n) <= 1
              /\ (CallEnded(n) /\ Healthy(o)) => Copies(o, n) = 1

\* C4: a junction_update whose broadcast returned has reached every healthy
\* observer that was registered when it was sent; an observer that joined
\* after the update was applied is not sent that update as a broadcast, and
\* its snapshot holds the update's payload when no later write of that
\* junction preceded the join.
C4_UpdateInSnapshotOrBroadcastNotBoth ==
    \A n \in 1 .. Len(issued) : CallMsg(n).type = "junction_update" =>
        \A o \in Observers :
            /\ (issued[n].status = "returned" /\ JoinedBefore(o, n) /\ Healthy(o))
                  => Copies(o, n) = 1
            /\ (pc[o] # "idle" /\ joinedAt[o] >= n) =>
                  /\ n \notin Attempted(o)
                  /\ Last(CallsAbout(CallJid(n), joinedAt[o])) = n
                        => CallMsg(n) \in Range(SnapshotOf(o).junctions)

\* C5: a junction_update without junction_id leaves the state table as it
\* was, starts no broadcast, and leaves the producer session receiving.
C5_MissingIdIsDropped ==
    [][\A p \in Producers :
          PublishReceive(p, Dumps(NoIdMsg)) =>
              /\ junctions' = junctions
              /\ issued' = issued
              /\ pc'[p] = "recv"]_vars

\* C6: an override request without lane is rejected: the state table is left
\* as it was, no override event is broadcast, and the response is not ok.
C6_MissingLaneIsRejected ==
    [][\A r \in Overriders, jid \in JIds, payload \in OverridePayloads :
          ("lane" \notin DOMAIN payload /\ OverrideRequest(r, jid, payload)) =>
              /\ junctions' = junctions
              /\ issued' = issued
              /\ sent' = sent
              /\ pc'[r] # "bcast"
              /\ resp'[r].status # "ok"]_vars

\* C7: the record of a junction whose last write was a junction_update is
\* exactly that update's payload, whatever was written to it before and
\* whatever was written to other junctions; a junction never written has no
\* record.
C7_LastUpdateWins ==
    \A jid \in JIds :
        LET S == CallsAbout(jid, Len(issued)) IN
        IF S = {} THEN jid \notin DOMAIN junctions
        ELSE CallMsg(Last(S)).type = "junction_update" =>
                 /\ jid \in DOMAIN junctions
                 /\ junctions[jid] = CallMsg(Last(S))

\* C7 witness: two producers have updated the same junction with different
\* payloads, the second while the first one's broadcast was still running.
C7_Witness ==
    /\ Len(issued) = 2
    /\ issued[1].by \in Producers /\ issued[2].by \in Producers
    /\ issued[1].by # issued[2].by
    /\ CallJid(1) = CallJid(2)
    /\ CallMsg(1) # CallMsg(2)
    /\ issued[1].status = "running"
    /\ junctions[CallJid(2)] = CallMsg(2)

\* C8: every observer receives the messages of the broadcast() calls in the
\* order in which the calls were made.
C8_FifoPerRecipient ==
    \A o \in Observers :
        \A i, j \in 1 .. Len(Received(o)) :
            (i < j /\ Received(o)[i].seq > 0) => Received(o)[i].seq <= Received(o)[j].seq

\* C9: no task removes from the registry a session that is absent from it,
\* and no session is registered once its handler has ended.
C9_RemovedExactlyOnce ==
    /\ \A t \in Callers \cup Observers : exc[t] # "KeyError: dashboard_clients.remove"
    /\ \A o \in Observers : pc[o] \in {"done", "failed"} => o \notin dashboard_clients

\* C10: no producer session and no override request is ended by what happens
\* to an observer: a producer session ends only by its own disconnect or its
\* own malformed message, and an override request never ends in an error.
C10_ObserverFailureIsContained ==
    /\ \A p \in Producers : pc[p] = "failed" => exc[p] = "KeyError: junction_id"
    /\ \A r \in Overriders : pc[r] # "failed" /\ resp[r].status # "error"

\* The fields an override writes.
OverrideFields == {"current_green", "phase_remaining", "override"}

\* C11: when the latest write of the state table is an override of jid, the
\* table differs from the table before that write in the record of jid
\* only; that record has the fields of the record stored before (of the
\* placeholder {junction_id} when none was stored) and the three override
\* fields, and every field other than those three has kept its value.
C11_OverrideTouchesThreeFields ==
    (Len(issued) >= 1 /\ CallMsg(Len(issued)).type = "override") =>
        LET n == Len(issued)
            jid == CallJid(n)
            before == TableAfter(n - 1)
            base == IF jid \in DOMAIN before THEN before[jid]
                    ELSE [junction_id |-> jid]
        IN  /\ DOMAIN junctions = DOMAIN before \cup {jid}
            /\ \A other \in DOMAIN before \ {jid} : junctions[other] = before[other]
            /\ DOMAIN junctions[jid] = DOMAIN base \cup OverrideFields
            /\ \A x \in DOMAIN base \ OverrideFields : junctions[jid][x] = base[x]

\* C11 witness: an override was applied to a record a producer had written,
\* while that producer's broadcast was still running.
C11_Witness ==
    /\ Len(issued) = 2
    /\ issued[1].by \in Producers
    /\ issued[1].status = "running"
    /\ CallMsg(2).type = "override"
    /\ CallJid(1) = CallJid(2)
    /\ junctions[CallJid(2)].type = "junction_update"
    /\ "override" \in DOMAIN junctions[CallJid(2)]

\* C12: the response of an accepted override request carries the event of
\* that request and, as applied_state, the record the request wrote:
\* current_green is the requested lane, phase_remaining the requested
\* duration (20 when absent) and override the descriptor of this request.
C12_ResponseCarriesAppliedState ==
    \A r \in Overriders :
        resp[r].status = "ok" =>
            LET payload == resp[r].event.payload
                state == resp[r].applied_state
            IN  /\ resp[r].event = OverrideEvent(resp[r].event.junction_id, payload)
                /\ OverrideFields \subseteq DOMAIN state
                /\ state.current_green = Get(payload, "lane")
                /\ state.phase_remaining = GetOr(payload, "duration", DefaultDuration)
                /\ state.override = [operator |-> GetOr(payload, "operator", "manual"),
                                     reason |-> GetOr(payload, "reason", "Manual override"),
                                     time |-> NowIso]

\* Call n is suspended in its send to the slow observer.
StuckOnSlow(n) ==
    /\ Len(issued) >= n
    /\ issued[n].status = "running"
    /\ bc[issued[n].by].seq = n
    /\ bc[issued[n].by].pos = Slot[SlowObserver]

\* C13: when a broadcast is suspended in its send to the slow observer, every
\* other observer that was registered when the call was made and is healthy
\* eventually receives the message of that call (or stops being healthy).
C13_SlowConsumerDoesNotBlock ==
    \A n \in 1 .. MaxBroadcasts : \A o \in Observers \ {SlowObserver} :
        (StuckOnSlow(n) /\ JoinedBefore(o, n) /\ Healthy(o))
            ~> (Copies(o, n) >= 1 \/ ~Healthy(o))

\* C14: a step in which a producer handler ends on its client's disconnect
\* removes that producer, and no other, from publish_clients and changes
\* neither junctions nor dashboard_clients; a step in which an observer
\* handler ends on its client's disconnect removes that observer, and no
\* other, from dashboard_clients and changes neither junctions nor
\* publish_clients.
C14_DisconnectTouchesOwnSessionOnly ==
    [][ /\ \A p \in Producers :
              (pc[p] = "recv" /\ pc'[p] = "done") =>
                  /\ publish_clients' = publish_clients \ {p}
                  /\ junctions' = junctions
                  /\ dashboard_clients' = dashboard_clients
        /\ \A o \in Observers :
              (pc[o] = "hold" /\ pc'[o] \in {"done", "failed"}) =>
                  /\ dashboard_clients' = dashboard_clients \ {o}
                  /\ junctions' = junctions
                  /\ publish_clients' = publish_clients ]_vars

\* C14 witness: a producer and an observer have disconnected while the other
\* producer and the other observer stay registered and the table has a
\* record.
C14_Witness ==
    /\ \E p, q \in Producers :
          pc[p] = "done" /\ q \in publish_clients /\ pc[q] = "recv"
    /\ \E o, q \in Observers :
          pc[o] = "done" /\ q \in dashboard_clients /\ pc[q] = "hold"
    /\ DOMAIN junctions # {}

\* C15: a step in which a producer session processes a well-formed message
\* whose type is not junction_update changes neither the state table nor
\* the two registries, makes no broadcast call, sends nothing, and leaves
\* the session waiting for its next message.
C15_OtherKindIsIgnored ==
    [][ \A p \in Producers :
            PublishReceive(p, Dumps(OtherKindMsg)) =>
                /\ junctions' = junctions
                /\ publish_clients' = publish_clients
                /\ dashboard_clients' = dashboard_clients
                /\ issued' = issued
                /\ sent' = sent
                /\ bc' = bc
                /\ pc'[p] = "recv"
                /\ exc'[p] = None ]_vars

\* C15 witness: a producer session ignored a message of another kind and
\* then had a junction_update stored and broadcast.
C15_Witness ==
    \E p \in Producers :
        /\ ignoredAt[p] > 0
        /\ \E n \in ignoredAt[p] .. Len(issued) :
              /\ issued[n].by = p
              /\ junctions[CallJid(n)] = CallMsg(n)

\* C16: the record of a junction whose last write was an override has as
\* phase_remaining the duration of that request (20 when the request has
\* none), which is not negative, and in its override descriptor the
\* operator and the reason of that request ("manual" and "Manual override"
\* when the request has none).
C16_OverrideValuesFromRequest ==
    \A jid \in JIds :
        LET S == CallsAbout(jid, Len(issued)) IN
        (S # {} /\ CallMsg(Last(S)).type = "override") =>
            LET payload == CallMsg(Last(S)).payload
                record == junctions[jid]
            IN  /\ record.phase_remaining = GetOr(payload, "duration", DefaultDuration)
                /\ record.phase_remaining >= 0
                /\ record.override.operator = GetOr(payload, "operator", "manual")
                /\ record.override.reason = GetOr(payload, "reason", "Manual override")

\* C17: while a broadcast is suspended in its sweep with members still to
\* visit, no step of another task changes the membership of the registry.
C17_NoMembershipChangeDuringSweep ==
    [][ \A t \in Callers :
            (/\ pc[t] = "bcast"
             /\ Remaining(bc[t]) # {}
             /\ bc'[t] = bc[t]) =>
                dashboard_clients' = dashboard_clients ]_vars

\* C18: a producer whose handler has ended, by a disconnect or by an
\* exception, is not in publish_clients.
C18_EndedProducerIsUntracked ==
    \A p \in Producers : pc[p] \in {"done", "failed"} => p \notin publish_clients

\* The table a list of records stands for, keyed by junction_id.
RECURSIVE TableOf(_)
TableOf(list) ==
    IF list = <<>> THEN <<>>
    ELSE DictSet(TableOf(SubSeq(list, 1, Len(list) - 1)),
                 list[Len(list)].junction_id, list[Len(list)])

\* What observer o holds after the first k messages it received: the
\* snapshot, overlaid with the junction_update messages in receipt order.
RECURSIVE ViewAfter(_, _)
ViewAfter(o, k) ==
    IF k = 0 THEN <<>>
    ELSE LET m == Loads(Received(o)[k].msg) IN
         IF m.type = "snapshot" THEN TableOf(m.junctions)
         ELSE IF m.type = "junction_update"
              THEN DictSet(ViewAfter(o, k - 1), m.junction_id, m)
              ELSE ViewAfter(o, k - 1)

\* C19: when no broadcast is in progress and every broadcast made has
\* returned, every healthy registered observer holds, for every junction,
\* the record the state table holds.
C19_ObserversConverge ==
    (/\ \A t \in Callers : pc[t] # "bcast"
     /\ \A n \in 1 .. Len(issued) : issued[n].status = "returned") =>
        \A o \in Observers :
            Healthy(o) =>
                \A jid \in JIds :
                    LET view == ViewAfter(o, Len(Received(o))) IN
                    /\ (jid \in DOMAIN view) = (jid \in DOMAIN junctions)
                    /\ jid \in DOMAIN junctions => view[jid] = junctions[jid]

\* C20: every observer whose handler is in its hold loop and whose transport
\* is open is a member of the registry.
C20_HoldingObserverIsRegistered ==
    \A o \in Observers : (pc[o] = "hold" /\ open[o]) => o \in dashboard_clients

\* C20 witness: a broadcast found a dead member, removed it and returned,
\* and an observer that received that broadcast is still in its hold loop
\* with its transport open.
C20_Witness ==
    \E n \in 1 .. Len(issued) : \E o \in Observers :
        /\ issued[n].status = "returned"
        /\ FailedIn(n) # {}
        /\ FailedIn(n) \cap dashboard_clients = {}
        /\ Copies(o, n) = 1
        /\ pc[o] = "hold"
        /\ open[o]

====
